---- MODULE Spec2Model ----
(***************************************************************************)
(* Wealth simulator (wealth-simulator/src/App.jsx): the Monte Carlo batch  *)
(* run by runSimulation and the React state around it (params, results,    *)
(* isSimulating, the pending setTimeout callbacks).                        *)
(*                                                                         *)
(* Numbers.  JavaScript numbers are modelled as exact rationals <<n, d>>   *)
(* in lowest terms with d > 0, so that a gross-up (a division by a tax     *)
(* factor) and a growth step are computed, not rounded.  The values that   *)
(* are not numbers (undefined, the string `${lifeExpectancy}+`) are        *)
(* modelled as what they are.                                              *)
(*                                                                         *)
(* Atomicity.  A setTimeout callback runs to completion on the single      *)
(* JavaScript thread.  The model walks through it loop iteration by loop   *)
(* iteration (pc), and no input handler is enabled while pc # "idle".      *)
(***************************************************************************)
EXTENDS Integers, Sequences, FiniteSets, TLC

VARIABLES
    params,        \* useState params (App.jsx:132)
    results,       \* useState results (App.jsx:167), Null before the first write
    isSimulating,  \* useState isSimulating (App.jsx:168)
    timers,        \* pending setTimeout callbacks, oldest first, each with the params it closed over
    changes,       \* number of setParams calls so far: the identity of the current params object
    pc,            \* position of the running callback: "idle", "year", "aggregate"
    cb,            \* the running callback's closure: [params, gen]
    allRuns,       \* allRuns (App.jsx:188)
    sim,           \* loop variable sim (App.jsx:191)
    year,          \* loop variable year (App.jsx:203)
    bal,           \* bTaxable, bPreTax, bRoth (App.jsx:199-201)
    run,           \* runTaxable, runPreTax, runRoth, runTotal (App.jsx:193-196)
    last,          \* the locals of the last executed iteration of the year loop
    resultsGen,    \* which params object the batch that wrote results had closed over
    resultsParams, \* the value of that params object
    thrown,        \* the exception that ended the last callback, "none" if it returned
    tape,          \* the fixed variates that stand in for Math.random, <<>> when it is in use
    draw           \* how many variates the running callback has taken from the tape

vars == <<params, results, isSimulating, timers, changes, pc, cb, allRuns, sim,
          year, bal, run, last, resultsGen, resultsParams, thrown, tape, draw>>

----------------------------------------------------------------------------
\* Bounds of the model.

\* SIMULATIONS is 1000 at App.jsx:184; the model runs the same loops over fewer paths.
SIMULATIONS == 3

\* How many times the user changes a parameter.
MaxChanges == 1

\* The standard normal variates z = sqrt(-2 ln u) cos(2 pi v) a draw may produce.
ZDraws == {-2, 1}

----------------------------------------------------------------------------
\* Rational arithmetic.

Abs(n) == IF n < 0 THEN -n ELSE n

RECURSIVE Gcd(_, _)
Gcd(a, b) == IF b = 0 THEN a ELSE Gcd(b, a % b)

Sgn(n) == IF n < 0 THEN -1 ELSE IF n > 0 THEN 1 ELSE 0

\* n/d in lowest terms.  A zero denominator is kept as <<0, 0>> (NaN) or <<+-1, 0>>
\* (+-Infinity), the values JavaScript's arithmetic gives there.
Norm(n, d) ==
    LET s == IF d < 0 THEN -1 ELSE 1
        g == Gcd(Abs(n), Abs(d))
    IN  IF d = 0 THEN <<Sgn(n), 0>>
        ELSE IF n = 0 THEN <<0, 1>>
        ELSE <<(s * n) \div g, (s * d) \div g>>

Rat(n) == <<n, 1>>
Zero == Rat(0)
Pct(n) == Norm(n, 100)

Add(a, b) == Norm(a[1] * b[2] + b[1] * a[2], a[2] * b[2])
Neg(a) == <<-a[1], a[2]>>
Sub(a, b) == Add(a, Neg(b))
Mul(a, b) == Norm(a[1] * b[1], a[2] * b[2])
Div(a, b) == Norm(a[1] * b[2], a[2] * b[1])
Lt(a, b) == a[1] * b[2] < b[1] * a[2]
Le(a, b) == a[1] * b[2] <= b[1] * a[2]
Ge(a, b) == Le(b, a)
Gt(a, b) == Lt(b, a)
RMin(a, b) == IF Lt(b, a) THEN b ELSE a
RAbs(a) == <<Abs(a[1]), a[2]>>

----------------------------------------------------------------------------
\* Values that are not numbers.

\* results before the first setResults (useState(null)).
Null == [type |-> "null"]

\* undefined, read where the code expects a number, behaves as NaN: every comparison
\* with it is false and every sum or difference with it is NaN again.
Undefined == <<0, 0>>
IsNumber(v) == v[2] # 0

----------------------------------------------------------------------------
\* The year loop of one path (App.jsx:203-331).

\* Mutant: the deviate is added without the scale stdDev.
GenerateGaussian_Unscaled(mean, stdDev, z) == Add(mean, Rat(z))

\* generateGaussian: mean + z * stdDev, z the Box-Muller variate of the two uniform draws.
GenerateGaussian(mean, stdDev, z) == Add(mean, Mul(Rat(z), stdDev))

Total(b) == Add(Add(b.taxable, b.pretax), b.roth)

\* 2. Apply Growth (simultaneous to all accounts).
ApplyGrowth(b, realReturn) ==
    [taxable |-> Mul(b.taxable, Add(Rat(1), realReturn)),
     pretax  |-> Mul(b.pretax, Add(Rat(1), realReturn)),
     roth    |-> Mul(b.roth, Add(Rat(1), realReturn))]

\* ACCUMULATION.
Contribute(b, p) ==
    [taxable |-> Add(b.taxable, Rat(p.taxableContribution)),
     pretax  |-> Add(b.pretax, Rat(p.preTaxContribution)),
     roth    |-> Add(b.roth, Rat(p.rothContribution))]

CurrentFixedIncome(p, age) ==
    IF age >= p.fixedIncomeStartAge THEN p.fixedIncomeAnnual ELSE 0

PortfolioNeed(p, age) ==
    Rat((p.minSpending + p.discretionarySpending) - CurrentFixedIncome(p, age))

MaxCutAmount(p) ==
    Mul(Rat(p.discretionarySpending), Pct(p.spendingCutFlexibility))

\* Mutant: the whole shortfall is cut, not at most maxCutAmount.
ActualPortfolioWithdrawal_Uncapped(p, age, gain) ==
    LET portfolioNeed == PortfolioNeed(p, age)
    IN  IF Gt(portfolioNeed, Zero) /\ Lt(gain, portfolioNeed)
        THEN Sub(portfolioNeed, Sub(portfolioNeed, gain))
        ELSE portfolioNeed

\* Dynamic spending: the net amount to take from the portfolio this period.
ActualPortfolioWithdrawal(p, age, gain) ==
    LET portfolioNeed == PortfolioNeed(p, age)
    IN  IF Gt(portfolioNeed, Zero) /\ Lt(gain, portfolioNeed)
        THEN LET shortfall == Sub(portfolioNeed, gain)
                 actualCut == RMin(shortfall, MaxCutAmount(p))
             IN  Sub(portfolioNeed, actualCut)
        ELSE portfolioNeed

\* Mutant: the tax factor is used as it is.
Divisor_Unclamped(effectiveTaxFactor) == effectiveTaxFactor

\* const divisor = effectiveTaxFactor <= 0 ? 0.01 : effectiveTaxFactor.
Divisor(effectiveTaxFactor) ==
    IF Le(effectiveTaxFactor, Zero) THEN <<1, 100>> ELSE effectiveTaxFactor

TaxableDivisor(p) ==
    Divisor(Sub(Rat(1), Mul(Pct(p.capitalGainsInclusion), Pct(p.incomeTaxRate))))

PreTaxDivisor(p) ==
    Divisor(Sub(Rat(1), Pct(p.incomeTaxRate)))

\* Mutant: the net need is deducted from taxable, the tax on it forgotten.
WithdrawTaxable_NoGrossUp(w, p) ==
    IF Gt(w.need, Zero) /\ Gt(w.bal.taxable, Zero)
    THEN IF Ge(w.bal.taxable, w.need)
         THEN [bal |-> [w.bal EXCEPT !.taxable = Sub(@, w.need)], need |-> Zero]
         ELSE [bal |-> [w.bal EXCEPT !.taxable = Zero],
               need |-> Sub(w.need, Mul(w.bal.taxable, TaxableDivisor(p)))]
    ELSE w

\* A. TAXABLE ACCOUNT.  w = [bal, need]: the balances and remainingNetNeed.
WithdrawTaxable(w, p) ==
    IF Gt(w.need, Zero) /\ Gt(w.bal.taxable, Zero)
    THEN LET divisor == TaxableDivisor(p)
             grossNeeded == Div(w.need, divisor)
         IN  IF Ge(w.bal.taxable, grossNeeded)
             THEN [bal |-> [w.bal EXCEPT !.taxable = Sub(@, grossNeeded)], need |-> Zero]
             ELSE [bal |-> [w.bal EXCEPT !.taxable = Zero],
                   need |-> Sub(w.need, Mul(w.bal.taxable, divisor))]
    ELSE w

\* B. PRE-TAX (401k).
WithdrawPreTax(w, p) ==
    IF Gt(w.need, Zero) /\ Gt(w.bal.pretax, Zero)
    THEN LET divisor == PreTaxDivisor(p)
             grossNeeded == Div(w.need, divisor)
         IN  IF Ge(w.bal.pretax, grossNeeded)
             THEN [bal |-> [w.bal EXCEPT !.pretax = Sub(@, grossNeeded)], need |-> Zero]
             ELSE [bal |-> [w.bal EXCEPT !.pretax = Zero],
                   need |-> Sub(w.need, Mul(w.bal.pretax, divisor))]
    ELSE w

\* C. ROTH.
WithdrawRoth(w) ==
    IF Gt(w.need, Zero) /\ Gt(w.bal.roth, Zero)
    THEN IF Ge(w.bal.roth, w.need)
         THEN [bal |-> [w.bal EXCEPT !.roth = Sub(@, w.need)], need |-> Zero]
         ELSE [bal |-> [w.bal EXCEPT !.roth = Zero], need |-> Sub(w.need, w.bal.roth)]
    ELSE w

\* Mutant: roth is drawn first.
Withdraw_RothFirst(b, amount, p) ==
    WithdrawPreTax(WithdrawTaxable(WithdrawRoth([bal |-> b, need |-> amount]), p), p)

\* WITHDRAWAL: Order = Taxable -> PreTax -> Roth.
Withdraw(b, amount, p) ==
    WithdrawRoth(WithdrawPreTax(WithdrawTaxable([bal |-> b, need |-> amount], p), p))

\* Mutant: the surplus goes to the pre-tax account.
DepositSurplus_PreTax(b, amount) == [b EXCEPT !.pretax = Add(@, RAbs(amount))]

\* SURPLUS: Pension > Spending. Reinvest surplus into Taxable Account.
DepositSurplus(b, amount) == [b EXCEPT !.taxable = Add(@, RAbs(amount))]

\* Mutant: the floor is left out.
FloorAtZero_Missing(b) == b

\* Floor at 0.
FloorAtZero(b) ==
    [taxable |-> IF Lt(b.taxable, Zero) THEN Zero ELSE b.taxable,
     pretax  |-> IF Lt(b.pretax, Zero) THEN Zero ELSE b.pretax,
     roth    |-> IF Lt(b.roth, Zero) THEN Zero ELSE b.roth]

\* const isRetired = age >= params.retirementAge.
\* Mutant: the year of the retirement age still counts as a working year.
IsRetired_Strict(p, age) == age > p.retirementAge

\* const isRetired = age >= params.retirementAge.
IsRetired(p, age) == age >= p.retirementAge

\* Mutant: the cashflows are not guarded by year > 0.
Phase_Unguarded(p, y, grown, startTotal) ==
    LET age == p.currentAge + y
        gain == Sub(Total(grown), startTotal)
    IN  IF ~IsRetired(p, age) THEN "accumulation"
        ELSE IF Lt(ActualPortfolioWithdrawal(p, age, gain), Zero) THEN "surplus"
        ELSE "withdrawal"

\* Which branch of "3. Cashflows" an iteration takes.
Phase(p, y, grown, startTotal) ==
    LET age == p.currentAge + y
        gain == Sub(Total(grown), startTotal)
    IN  IF ~(y > 0) THEN "snapshot"
        ELSE IF ~IsRetired(p, age) THEN "accumulation"
        ELSE IF Lt(ActualPortfolioWithdrawal(p, age, gain), Zero) THEN "surplus"
        ELSE "withdrawal"

\* 3. Cashflows: the balances after the branch, before the floor.
Cashflow(p, y, grown, startTotal) ==
    LET age == p.currentAge + y
        gain == Sub(Total(grown), startTotal)
        actual == ActualPortfolioWithdrawal(p, age, gain)
        phase == Phase(p, y, grown, startTotal)
    IN  CASE phase = "snapshot" -> grown
          [] phase = "accumulation" -> Contribute(grown, p)
          [] phase = "surplus" -> DepositSurplus(grown, actual)
          [] phase = "withdrawal" -> Withdraw(grown, actual, p).bal

\* One iteration of the year loop from balances b with variate z: its locals.
\* The locals of a branch that did not run are Undefined.
Iteration(p, y, b, z) ==
    LET age == p.currentAge + y
        startTotal == Total(b)
        realReturn == GenerateGaussian(Pct(p.expectedReturn), Pct(p.volatility), z)
        grown == IF y > 0 THEN ApplyGrowth(b, realReturn) ELSE b
        phase == Phase(p, y, grown, startTotal)
        retired == phase \in {"surplus", "withdrawal"}
        gain == Sub(Total(grown), startTotal)
        actual == ActualPortfolioWithdrawal(p, age, gain)
        cash == Cashflow(p, y, grown, startTotal)
    IN  [age |-> age,
         phase |-> phase,
         startTotal |-> startTotal,
         realReturn |-> IF y > 0 THEN realReturn ELSE Undefined,
         grown |-> grown,
         gain |-> IF retired THEN gain ELSE Undefined,
         portfolioNeed |-> IF retired THEN PortfolioNeed(p, age) ELSE Undefined,
         actualPortfolioWithdrawal |-> IF retired THEN actual ELSE Undefined,
         remainingNetNeed |-> IF phase = "withdrawal"
                              THEN Withdraw(grown, actual, p).need ELSE Undefined,
         cash |-> cash,
         bal |-> FloorAtZero(cash)]

NoBalances == [taxable |-> Zero, pretax |-> Zero, roth |-> Zero]

\* No iteration has run yet in this path.
NoIteration ==
    [age |-> 0, phase |-> "none", startTotal |-> Undefined, realReturn |-> Undefined,
     grown |-> NoBalances, gain |-> Undefined, portfolioNeed |-> Undefined,
     actualPortfolioWithdrawal |-> Undefined, remainingNetNeed |-> Undefined,
     cash |-> NoBalances, bal |-> NoBalances]

\* const runTaxable = [], runPreTax = [], runRoth = [], runTotal = [].
EmptyRun == [taxable |-> <<>>, pretax |-> <<>>, roth |-> <<>>, total |-> <<>>]

\* Initialize Balances.
StartBalances(p) ==
    [taxable |-> Rat(p.taxableBalance), pretax |-> Rat(p.preTaxBalance),
     roth |-> Rat(p.rothBalance)]

\* Mutant: the total is pushed without the roth balance.
Push_TotalWithoutRoth(r, b) ==
    [taxable |-> Append(r.taxable, b.taxable),
     pretax  |-> Append(r.pretax, b.pretax),
     roth    |-> Append(r.roth, b.roth),
     total   |-> Append(r.total, Add(b.taxable, b.pretax))]

\* Store for path.
Push(r, b) ==
    [taxable |-> Append(r.taxable, b.taxable),
     pretax  |-> Append(r.pretax, b.pretax),
     roth    |-> Append(r.roth, b.roth),
     total   |-> Append(r.total, Total(b))]

YearsToSimulate(p) == p.lifeExpectancy - p.currentAge

----------------------------------------------------------------------------
\* Aggregation over allRuns (App.jsx:340-396).

\* Math.floor of a number.
Floor(a) == a[1] \div a[2]

\* Math.floor(SIMULATIONS * q), a 0-based rank.
Rank(q) == Floor(Mul(Rat(SIMULATIONS), q))

\* Array.prototype.sort((a, b) => a - b): x goes before the first element it is smaller than.
RECURSIVE InsertNumber(_, _)
InsertNumber(s, x) ==
    IF Len(s) = 0 THEN <<x>>
    ELSE IF Lt(Sub(x, Head(s)), Zero) THEN <<x>> \o s
    ELSE <<Head(s)>> \o InsertNumber(Tail(s), x)

\* Mutant: yearValues is left in path order.
SortNumbers_Missing(s) == s

RECURSIVE SortNumbers(_)
SortNumbers(s) ==
    IF Len(s) = 0 THEN <<>>
    ELSE InsertNumber(SortNumbers(SubSeq(s, 1, Len(s) - 1)), s[Len(s)])

\* a[i] of a JavaScript array (0-based): undefined outside it.
At(a, i) == IF i >= 0 /\ i < Len(a) THEN a[i + 1] ELSE Undefined

\* Mutant: the paths are compared by their final taxable balance.
FinalTotal_Taxable(r) == At(r.taxable, Len(r.taxable) - 1)

\* run.total[run.total.length - 1].
FinalTotal(r) == At(r.total, Len(r.total) - 1)

\* allRuns.sort((a, b) => lastA - lastB): a stable sort by final total wealth.
RECURSIVE InsertRun(_, _)
InsertRun(s, x) ==
    IF Len(s) = 0 THEN <<x>>
    ELSE IF Lt(Sub(FinalTotal(x), FinalTotal(Head(s))), Zero) THEN <<x>> \o s
    ELSE <<Head(s)>> \o InsertRun(Tail(s), x)

RECURSIVE SortRuns(_)
SortRuns(s) ==
    IF Len(s) = 0 THEN <<>>
    ELSE InsertRun(SortRuns(SubSeq(s, 1, Len(s) - 1)), s[Len(s)])

\* yearValues for index i: allRuns.map(r => r.total[i]).sort((a, b) => a - b).
YearValues(runs, i) == SortNumbers([k \in 1..Len(runs) |-> At(runs[k].total, i)])

\* 1. Calculate Aggregates (Probability Cone).
ProbabilityData(runs, p) ==
    IF YearsToSimulate(p) < 0 THEN <<>>
    ELSE [j \in 1..(YearsToSimulate(p) + 1) |->
            LET yearValues == YearValues(runs, j - 1)
            IN  [age |-> p.currentAge + (j - 1),
                 p20 |-> At(yearValues, Rank(<<1, 5>>)),
                 p50 |-> At(yearValues, Rank(<<1, 2>>)),
                 p80 |-> At(yearValues, Rank(<<4, 5>>))]]

\* Mutant: the path at medianRunIndex is taken from the unsorted array.
MedianRun_Unsorted(runs) == runs[Rank(<<1, 2>>) + 1]

\* 2. Find the Median Run: allRuns[medianRunIndex] after the sort by final total.
MedianRun(runs) == SortRuns(runs)[Rank(<<1, 2>>) + 1]

\* Build Stacked Data from Median Run.
MedianData(runs, p) ==
    IF YearsToSimulate(p) < 0 THEN <<>>
    ELSE [j \in 1..(YearsToSimulate(p) + 1) |->
            LET medianRun == MedianRun(runs)
            IN  [age |-> p.currentAge + (j - 1),
                 taxable |-> At(medianRun.taxable, j - 1),
                 pretax |-> At(medianRun.pretax, j - 1),
                 roth |-> At(medianRun.roth, j - 1),
                 total |-> At(medianRun.total, j - 1)]]

StartTotalNetWorth(p) == Rat(p.taxableBalance + p.preTaxBalance + p.rothBalance)

\* Mutant: a path that ends exactly at the initial net worth is not counted.
SuccessCount_Strict(runs, p) ==
    Cardinality({k \in 1..Len(runs) : Gt(FinalTotal(runs[k]), StartTotalNetWorth(p))})

\* 3. Success Criteria & KPIs.
SuccessCount(runs, p) ==
    Cardinality({k \in 1..Len(runs) : Ge(FinalTotal(runs[k]), StartTotalNetWorth(p))})

SuccessRate(runs, p) ==
    Mul(Div(Rat(SuccessCount(runs, p)), Rat(SIMULATIONS)), Rat(100))

\* Mutant: the last index with p20 <= 0 is taken.
FailYearIndex_Last(probabilityData) ==
    LET hits == {j \in 1..Len(probabilityData) : Le(probabilityData[j].p20, Zero)}
    IN  IF hits = {} THEN -1 ELSE (CHOOSE j \in hits : \A k \in hits : j >= k) - 1

\* probabilityData.findIndex(d => d.p20 <= 0), 0-based, -1 when there is none.
FailYearIndex(probabilityData) ==
    LET hits == {j \in 1..Len(probabilityData) : Le(probabilityData[j].p20, Zero)}
    IN  IF hits = {} THEN -1 ELSE (CHOOSE j \in hits : \A k \in hits : j <= k) - 1

\* survivalAge: an age (a number), or the string `${params.lifeExpectancy}+`.
SurvivalAge(probabilityData, p) ==
    LET failYearIndex == FailYearIndex(probabilityData)
    IN  IF failYearIndex # -1
        THEN [type |-> "number", value |-> probabilityData[failYearIndex + 1].age]
        ELSE [type |-> "string", text |-> <<p.lifeExpectancy, "+">>]

\* probabilityData[probabilityData.length - 1].p50 reads a property of undefined, a
\* TypeError, when probabilityData is empty.
ResultThrows(runs, p) == Len(ProbabilityData(runs, p)) = 0

\* The object handed to setResults.
AggregateResult(runs, p) ==
    LET probabilityData == ProbabilityData(runs, p)
    IN  [probabilityData |-> probabilityData,
         medianData |-> MedianData(runs, p),
         successRate |-> SuccessRate(runs, p),
         medianEndWealth |-> probabilityData[Len(probabilityData)].p50,
         survivalAge |-> SurvivalAge(probabilityData, p)]

----------------------------------------------------------------------------
\* InputGroup.handleChange (App.jsx:45-59).  The typed text is a sequence of characters.

Digits == {"0", "1", "2", "3", "4", "5", "6", "7", "8", "9"}

DigitValue(c) ==
    CASE c = "0" -> 0 [] c = "1" -> 1 [] c = "2" -> 2 [] c = "3" -> 3 [] c = "4" -> 4
      [] c = "5" -> 5 [] c = "6" -> 6 [] c = "7" -> 7 [] c = "8" -> 8 [] c = "9" -> 9

IsComma(c) == c = ","

\* e.target.value.replace(/,/g, '').
StripCommas(text) == SelectSeq(text, LAMBDA c : ~IsComma(c))

AllDigits(t) == Len(t) > 0 /\ \A k \in 1..Len(t) : t[k] \in Digits

RECURSIVE DecimalValue(_)
DecimalValue(t) ==
    IF Len(t) = 0 THEN 0
    ELSE 10 * DecimalValue(SubSeq(t, 1, Len(t) - 1)) + DigitValue(t[Len(t)])

\* Number(rawValue) for a non-empty text of digits, '-' and other characters:
\* [nan |-> TRUE] is NaN.
ToNumber(raw) ==
    IF AllDigits(raw) THEN [nan |-> FALSE, value |-> DecimalValue(raw)]
    ELSE IF Len(raw) > 1 /\ Head(raw) = "-" /\ AllDigits(Tail(raw))
         THEN [nan |-> FALSE, value |-> -DecimalValue(Tail(raw))]
    ELSE [nan |-> TRUE, value |-> 0]

\* What handleChange passes to onChange: [called |-> FALSE] when it returns without calling it.
ChangeValue(text) ==
    LET rawValue == StripCommas(text)
        parsed == ToNumber(rawValue)
    IN  IF rawValue = <<>> \/ rawValue = <<"-">> THEN [called |-> TRUE, value |-> 0]
        ELSE IF ~parsed.nan THEN [called |-> TRUE, value |-> parsed.value]
        ELSE [called |-> FALSE, value |-> 0]

----------------------------------------------------------------------------
\* Parameter sets.  Money is in thousands and the timeline is short, so that every
\* path can be enumerated; the shape is that of useState(params) at App.jsx:132-165.

BaseParams ==
    [currentAge |-> 30, retirementAge |-> 31, lifeExpectancy |-> 32,
     taxableBalance |-> 50, taxableContribution |-> 5,
     preTaxBalance |-> 40, preTaxContribution |-> 10,
     rothBalance |-> 10, rothContribution |-> 6,
     minSpending |-> 40, discretionarySpending |-> 20, spendingCutFlexibility |-> 50,
     fixedIncomeAnnual |-> 0, fixedIncomeStartAge |-> 31,
     expectedReturn |-> 5, volatility |-> 15,
     incomeTaxRate |-> 30, capitalGainsInclusion |-> 50]

\* need 60, gain 40, discretionary 20, flexibility 50%.
ShortfallParams ==
    [BaseParams EXCEPT !.taxableBalance = 200, !.preTaxBalance = 100, !.rothBalance = 100,
                       !.expectedReturn = 10, !.volatility = 0, !.incomeTaxRate = 0]

\* Fixed income 50 from age 32 against a target spend of 40.
SurplusParams ==
    [BaseParams EXCEPT !.minSpending = 30, !.discretionarySpending = 10,
                       !.fixedIncomeAnnual = 50, !.fixedIncomeStartAge = 32,
                       !.expectedReturn = 10, !.volatility = 0]

\* One accumulation year, then two retired years; returns of -150% and +150%.
CrashParams ==
    [BaseParams EXCEPT !.retirementAge = 32, !.lifeExpectancy = 33,
                       !.expectedReturn = 50, !.volatility = 100]

\* Both tax factors are 0 and the portfolio runs out in the first retired year.
HighTaxParams ==
    [BaseParams EXCEPT !.expectedReturn = 0, !.volatility = 0,
                       !.incomeTaxRate = 100, !.capitalGainsInclusion = 100]

\* Net need 10 against a taxable balance of 5 (f = 0.85), then pre-tax, then roth.
OrderingParams ==
    [BaseParams EXCEPT !.taxableBalance = 5, !.preTaxBalance = 20, !.rothBalance = 10,
                       !.minSpending = 10, !.discretionarySpending = 0,
                       !.expectedReturn = 0, !.volatility = 0]

\* Fixed income 55 leaves a need of 5; returns of -50% and +25%; all of the
\* discretionary 20 may be cut.
PensionParams ==
    [BaseParams EXCEPT !.fixedIncomeAnnual = 55, !.spendingCutFlexibility = 100,
                       !.expectedReturn = 0, !.volatility = 25]

\* Returns of -150% and +150% with a fixed income of 70 above the target spend of 60.
CrashPensionParams ==
    [BaseParams EXCEPT !.fixedIncomeAnnual = 70, !.expectedReturn = 50, !.volatility = 100]

\* Nothing is spent; a year halves or doubles the portfolio.
EvenParams ==
    [BaseParams EXCEPT !.minSpending = 0, !.discretionarySpending = 0,
                       !.expectedReturn = 50, !.volatility = 50]

\* Nothing is spent and every year returns exactly +50%.
SteadyParams == [EvenParams EXCEPT !.volatility = 0]

\* One accumulation year, then retirement with a fixed income of 30 from the last
\* year on; returns of -25% and +20%; income taxed at 60%, gains fully included.
LongParams ==
    [BaseParams EXCEPT !.retirementAge = 32, !.lifeExpectancy = 33,
                       !.fixedIncomeAnnual = 30, !.fixedIncomeStartAge = 33,
                       !.spendingCutFlexibility = 0,
                       !.incomeTaxRate = 60, !.capitalGainsInclusion = 100]

\* The parameter sets a batch is run on.
Scenarios ==
    {BaseParams, ShortfallParams, SurplusParams, CrashParams, HighTaxParams,
     OrderingParams, PensionParams, CrashPensionParams, EvenParams, SteadyParams,
     LongParams}

\* One accumulation year, then two retired years without spending; returns of -150%
\* and +150%.
FrugalParams == [CrashParams EXCEPT !.minSpending = 0, !.discretionarySpending = 0]

\* The parameter sets a batch is replayed on with a fixed sequence of variates.
ReplayParams == {EvenParams, FrugalParams}

\* The fixed sequences of variates, read cyclically: every sequence of two or three.
Tapes == [1..2 -> ZDraws] \cup [1..3 -> ZDraws]

\* The parameter sets the application starts from.
InitialParams == {ShortfallParams, SurplusParams, OrderingParams}

\* What the user types into which field.
Edits ==
    {<<"lifeExpectancy", <<>>>>,
     <<"retirementAge", <<"3", "0">>>>,
     <<"fixedIncomeAnnual", <<"1", ",", "0", "0", "0">>>>,
     <<"minSpending", <<"-">>>>,
     <<"discretionarySpending", <<"2", "x">>>>,
     <<"volatility", <<"5", "0">>>>}

----------------------------------------------------------------------------
\* The state machine.

NoClosure == [params |-> Null, gen |-> -1]

\* Mutant: the callback scheduled last runs first.
Schedule_Front(ts, p, gen) == <<[params |-> p, gen |-> gen]>> \o ts

\* runSimulation up to setTimeout: the callback closes over the params of this render.
Schedule(ts, p, gen) == Append(ts, [params |-> p, gen |-> gen])

\* Math.random is in use.
NoTape == <<>>

\* The variates generateGaussian may produce next: any of ZDraws with Math.random,
\* the next one on the tape, taken cyclically, with a fixed sequence in its place.
NextDraws ==
    IF tape = NoTape THEN ZDraws ELSE {tape[(draw % Len(tape)) + 1]}

\* The state after the first render and its effect (useEffect, App.jsx:401-403), the
\* parameters one of S and the random source one of T.
InitWith(S, T) ==
    /\ tape \in T
    /\ draw = 0
    /\ resultsParams = Null
    /\ params \in S
    /\ results = Null
    /\ isSimulating = TRUE
    /\ timers = Schedule(<<>>, params, 0)
    /\ changes = 0
    /\ pc = "idle"
    /\ cb = NoClosure
    /\ allRuns = <<>>
    /\ sim = 0
    /\ year = 0
    /\ bal = NoBalances
    /\ run = EmptyRun
    /\ last = NoIteration
    /\ resultsGen = -1
    /\ thrown = "none"

InitFrom(S) == InitWith(S, {NoTape})

Init == InitFrom(InitialParams)

InitBatch == InitFrom(Scenarios)

batchVars == <<cb, allRuns, sim, year, bal, run, last>>

\* handleChange -> onChange -> updateParam -> render -> useEffect -> runSimulation.
HandleChange(key, text) ==
    /\ pc = "idle"
    /\ changes < MaxChanges
    /\ LET v == ChangeValue(text)
       IN  IF v.called
           THEN /\ params' = [params EXCEPT ![key] = v.value]
                /\ changes' = changes + 1
                /\ isSimulating' = TRUE
                /\ timers' = Schedule(timers, params', changes')
                /\ UNCHANGED <<results, resultsGen, resultsParams, thrown, pc, batchVars,
                               tape, draw>>
           ELSE UNCHANGED vars

\* The oldest pending timer fires: the callback starts (App.jsx:183-201).
TimerFires ==
    /\ pc = "idle"
    /\ Len(timers) > 0
    /\ cb' = Head(timers)
    /\ timers' = Tail(timers)
    /\ pc' = "year"
    /\ allRuns' = <<>>
    /\ sim' = 0
    /\ year' = 0
    /\ bal' = StartBalances(cb'.params)
    /\ run' = EmptyRun
    /\ last' = NoIteration
    /\ thrown' = "none"
    /\ draw' = 0
    /\ UNCHANGED <<params, results, isSimulating, changes, resultsGen, resultsParams, tape>>

\* One iteration of the year loop (App.jsx:203-331).
YearStep ==
    /\ pc = "year"
    /\ sim < SIMULATIONS
    /\ year <= YearsToSimulate(cb.params)
    /\ \E z \in NextDraws :
          /\ last' = Iteration(cb.params, year, bal, z)
          /\ bal' = last'.bal
          /\ run' = Push(run, last'.bal)
    /\ year' = year + 1
    /\ draw' = IF tape = NoTape THEN draw ELSE draw + 1
    /\ UNCHANGED <<params, results, isSimulating, timers, changes, pc, cb, allRuns,
                   sim, resultsGen, resultsParams, thrown, tape>>

\* Mutant: the balances are declared outside the loop over the paths, so that a path
\* goes on from where the one before it ended.
EndRun_KeepsBalances ==
    /\ pc = "year"
    /\ sim < SIMULATIONS
    /\ year > YearsToSimulate(cb.params)
    /\ allRuns' = Append(allRuns, run)
    /\ sim' = sim + 1
    /\ year' = 0
    /\ run' = EmptyRun
    /\ last' = NoIteration
    /\ IF sim' < SIMULATIONS
       THEN pc' = "year" /\ bal' = bal
       ELSE pc' = "aggregate" /\ bal' = NoBalances
    /\ UNCHANGED <<params, results, isSimulating, timers, changes, cb, resultsGen,
                   resultsParams, thrown, tape, draw>>

\* The year loop is over: allRuns.push, and the next path starts (App.jsx:191-201, 332-337).
EndRun ==
    /\ pc = "year"
    /\ sim < SIMULATIONS
    /\ year > YearsToSimulate(cb.params)
    /\ allRuns' = Append(allRuns, run)
    /\ sim' = sim + 1
    /\ year' = 0
    /\ run' = EmptyRun
    /\ last' = NoIteration
    /\ IF sim' < SIMULATIONS
       THEN pc' = "year" /\ bal' = StartBalances(cb.params)
       ELSE pc' = "aggregate" /\ bal' = NoBalances
    /\ UNCHANGED <<params, results, isSimulating, timers, changes, cb, resultsGen,
                   resultsParams, thrown, tape, draw>>

\* The aggregates, setResults and setIsSimulating(false) (App.jsx:340-398); a TypeError
\* on the way ends the callback before either setter is called.
Aggregate ==
    /\ pc = "aggregate"
    /\ IF ResultThrows(allRuns, cb.params)
       THEN /\ thrown' = "TypeError"
            /\ UNCHANGED <<results, resultsGen, resultsParams, isSimulating>>
       ELSE /\ results' = AggregateResult(allRuns, cb.params)
            /\ resultsGen' = cb.gen
            /\ resultsParams' = cb.params
            /\ isSimulating' = FALSE
            /\ thrown' = "none"
    /\ pc' = "idle"
    /\ cb' = NoClosure
    /\ allRuns' = <<>>
    /\ draw' = 0
    /\ UNCHANGED <<params, timers, changes, sim, year, bal, run, last, tape>>

Next ==
    \/ \E e \in Edits : HandleChange(e[1], e[2])
    \/ TimerFires
    \/ YearStep
    \/ EndRun
    \/ Aggregate

Spec == Init /\ [][Next]_vars

\* One batch on each of the parameter sets, the inputs left alone.
NextBatch ==
    \/ TimerFires
    \/ YearStep
    \/ EndRun
    \/ Aggregate

SpecBatch == InitBatch /\ [][NextBatch]_vars

\* The application with Math.random replaced by a fixed sequence of variates that
\* every invocation of the batch reads from its beginning.
InitReplay == InitWith(ReplayParams, Tapes)

SpecReplay == InitReplay /\ [][Next]_vars

----------------------------------------------------------------------------
\* Properties.

\* The trajectories recorded so far: the finished paths and the one being simulated.
Recorded == {allRuns[k] : k \in 1..Len(allRuns)} \cup {run}

\* An iteration of the year loop has just run.
Stepped == pc = "year" /\ last.phase # "none"

NonNegative(r) ==
    \A i \in 1..Len(r.total) :
        /\ Ge(r.taxable[i], Zero)
        /\ Ge(r.pretax[i], Zero)
        /\ Ge(r.roth[i], Zero)
        /\ Ge(r.total[i], Zero)

\* C1: every recorded taxable, pre-tax, roth and total balance of every path, at every
\* age, is >= 0, whatever the sampled return.
C1_FloorInvariant == \A r \in Recorded : NonNegative(r)

\* A return below -100% left an account negative after the cashflow and 0 was recorded.
C1_Witness ==
    /\ Stepped
    /\ Lt(last.realReturn, Rat(-1))
    /\ Lt(last.cash.taxable, Zero)
    /\ run.taxable[Len(run.taxable)] = Zero

SumsUp(r) ==
    \A i \in 1..Len(r.total) :
        r.total[i] = Add(Add(r.taxable[i], r.pretax[i]), r.roth[i])

\* C2: in every trajectory entry the recorded total is exactly the sum of the taxable,
\* pre-tax and roth balances recorded in the same entry.
C2_TotalIsSum ==
    /\ \A r \in Recorded : SumsUp(r)
    /\ results # Null =>
          \A j \in 1..Len(results.medianData) :
              LET d == results.medianData[j]
              IN  d.total = Add(Add(d.taxable, d.pretax), d.roth)

\* A finished path whose last entry holds three positive balances.
C2_Witness ==
    \E k \in 1..Len(allRuns) :
        LET r == allRuns[k]
            n == Len(r.total)
        IN  /\ n > 1
            /\ Gt(r.taxable[n], Zero) /\ Gt(r.pretax[n], Zero) /\ Gt(r.roth[n], Zero)

\* C3: withdrawals go taxable -> pre-tax -> roth: in a period that executes a
\* withdrawal the cashflow reduces pre-tax only if taxable is recorded as 0, and
\* reduces roth only if taxable and pre-tax are both recorded as 0.
C3_WithdrawalOrder ==
    (Stepped /\ last.phase = "withdrawal") =>
        /\ Lt(last.cash.pretax, last.grown.pretax) => last.bal.taxable = Zero
        /\ Lt(last.cash.roth, last.grown.roth) =>
              (last.bal.taxable = Zero /\ last.bal.pretax = Zero)

\* A withdrawal that emptied taxable and pre-tax and went on to reduce roth.
C3_Witness ==
    /\ Stepped /\ last.phase = "withdrawal"
    /\ Gt(last.grown.taxable, Zero) /\ Gt(last.grown.pretax, Zero)
    /\ Lt(last.cash.roth, last.grown.roth)
    /\ Gt(last.cash.roth, Zero)

\* The spending rule as the specification states it, from the parameters and the
\* period's gain.
StatedWithdrawal(p, age, gain) ==
    LET fixedIncome == IF age >= p.fixedIncomeStartAge THEN p.fixedIncomeAnnual ELSE 0
        need == Rat(p.minSpending + p.discretionarySpending - fixedIncome)
        maxCut == Norm(p.discretionarySpending * p.spendingCutFlexibility, 100)
    IN  IF Gt(need, Zero) /\ Lt(gain, need)
        THEN Sub(need, RMin(Sub(need, gain), maxCut))
        ELSE need

\* C4: in a retired period actualWithdrawal = portfolioNeed - min(portfolioNeed - gain,
\* discretionarySpending * spendingCutFlexibility / 100) when portfolioNeed > 0 and
\* gain < portfolioNeed, and portfolioNeed otherwise; the cut lies between 0 and
\* discretionarySpending * spendingCutFlexibility / 100.
C4_SpendingRule ==
    (Stepped /\ last.phase \in {"surplus", "withdrawal"}) =>
        LET p == cb.params
            gain == Sub(Total(last.grown), last.startTotal)
            cut == Sub(last.portfolioNeed, last.actualPortfolioWithdrawal)
        IN  /\ last.actualPortfolioWithdrawal = StatedWithdrawal(p, last.age, gain)
            /\ Ge(cut, Zero)
            /\ Le(cut, Norm(p.discretionarySpending * p.spendingCutFlexibility, 100))

\* Need 60, gain 40, discretionary 20, flexibility 50%: the withdrawal is 50.
C4_Witness ==
    /\ Stepped /\ last.phase = "withdrawal"
    /\ last.portfolioNeed = Rat(60) /\ last.gain = Rat(40)
    /\ cb.params.discretionarySpending = 20 /\ cb.params.spendingCutFlexibility = 50
    /\ last.actualPortfolioWithdrawal = Rat(50)

\* C5: in a retired period whose fixed income exceeds the target spend
\* (portfolioNeed < 0) the cashflow adds exactly -portfolioNeed to the taxable balance
\* and leaves pre-tax and roth as growth left them.
C5_SurplusToTaxable ==
    (Stepped /\ last.phase \in {"surplus", "withdrawal"}
             /\ Lt(last.portfolioNeed, Zero)) =>
        LET n == Len(run.total)
            factor == Add(Rat(1), last.realReturn)
        IN  /\ Sub(last.cash.taxable, last.grown.taxable) = Neg(last.portfolioNeed)
            /\ last.cash.pretax = Mul(run.pretax[n - 1], factor)
            /\ last.cash.roth = Mul(run.roth[n - 1], factor)

\* Fixed income 50 against a target spend of 40: a surplus of 10 was deposited.
C5_Witness ==
    /\ Stepped /\ last.portfolioNeed = Rat(-10)
    /\ Gt(last.grown.pretax, Zero) /\ Gt(last.grown.roth, Zero)

\* C6: a batch started for params that a later change has superseded never writes
\* results: whenever results is written, the writing batch had closed over the
\* current params object.
C6_StaleResultDiscarded == [][resultsGen' # resultsGen => resultsGen' = changes']_vars

\* C7: parameters off the ordered timeline are clamped or refused at the entry point:
\* the engine never runs with a negative horizon, never records an empty trajectory
\* and never ends in an exception or an undefined result field.
C7_EntryValidation ==
    /\ pc # "idle" => YearsToSimulate(cb.params) >= 0
    /\ \A k \in 1..Len(allRuns) : Len(allRuns[k].total) > 0
    /\ thrown = "none"
    /\ results # Null => IsNumber(results.medianEndWealth)

\* The entries of probabilityData whose p20 is <= 0.
FailYears(probabilityData) ==
    {j \in 1..Len(probabilityData) : Le(probabilityData[j].p20, Zero)}

\* C8: survivalAge is the age of the first entry of probabilityData with p20 <= 0, and
\* the string of lifeExpectancy followed by "+" when there is no such entry.
C8_SurvivalAge ==
    results # Null =>
        LET pd == results.probabilityData
            hits == FailYears(pd)
        IN  IF hits # {}
            THEN \E j \in hits :
                    /\ \A k \in hits : j <= k
                    /\ results.survivalAge = [type |-> "number", value |-> pd[j].age]
            ELSE results.survivalAge =
                    [type |-> "string", text |-> <<params.lifeExpectancy, "+">>]

\* The p20 band is at 0 at two ages and survivalAge is the earlier one.
C8_Witness ==
    /\ results # Null
    /\ Cardinality(FailYears(results.probabilityData)) >= 2
    /\ results.survivalAge.type = "number"
    /\ results.survivalAge.value < params.lifeExpectancy

\* v is the element at 0-based rank k of the ascending order of values.
IsOrderStatistic(values, k, v) ==
    /\ Cardinality({i \in 1..Len(values) : Lt(values[i], v)}) <= k
    /\ Cardinality({i \in 1..Len(values) : Le(values[i], v)}) > k

\* C9: at every age p20 <= p50 <= p80, the three being the elements at ranks
\* floor(N * 0.2), floor(N * 0.5) and floor(N * 0.8) of the paths' totals at that age
\* in ascending order.
C9_PercentileOrder ==
    /\ results # Null =>
          \A j \in 1..Len(results.probabilityData) :
              LET d == results.probabilityData[j]
              IN  Le(d.p20, d.p50) /\ Le(d.p50, d.p80)
    /\ (pc = "aggregate" /\ ~ResultThrows(allRuns, cb.params)) =>
          LET pd == AggregateResult(allRuns, cb.params).probabilityData
          IN  \A j \in 1..Len(pd) :
                  LET totals == [k \in 1..Len(allRuns) |-> allRuns[k].total[j]]
                  IN  /\ IsOrderStatistic(totals, (SIMULATIONS * 2) \div 10, pd[j].p20)
                      /\ IsOrderStatistic(totals, (SIMULATIONS * 5) \div 10, pd[j].p50)
                      /\ IsOrderStatistic(totals, (SIMULATIONS * 8) \div 10, pd[j].p80)

\* Three different band values at one age.
C9_Witness ==
    /\ results # Null
    /\ \E j \in 1..Len(results.probabilityData) :
          LET d == results.probabilityData[j]
          IN  Lt(d.p20, d.p50) /\ Lt(d.p50, d.p80)

\* The batch hands its result to setResults in this step.
Delivers == pc = "aggregate" /\ ~ResultThrows(allRuns, cb.params)

\* The paths that end at or above the initial total net worth.
Successes ==
    {k \in 1..Len(allRuns) :
        LET r == allRuns[k]
            p == cb.params
        IN  Ge(r.total[Len(r.total)],
               Rat(p.taxableBalance + p.preTaxBalance + p.rothBalance))}

PathData(r, p) ==
    [j \in 1..Len(r.total) |->
        [age |-> p.currentAge + (j - 1),
         taxable |-> r.taxable[j], pretax |-> r.pretax[j], roth |-> r.roth[j],
         total |-> r.total[j]]]

\* The final totals of the finished paths.
FinalTotals == [k \in 1..Len(allRuns) |-> allRuns[k].total[Len(allRuns[k].total)]]

\* C11: medianData is the complete per-account trajectory of one single path, a path
\* whose final total is at rank floor(N * 0.5) of the final totals of all N paths in
\* ascending order; every entry, at every age, comes from that same path.
C11_MedianPath ==
    [][Delivers =>
          \E k \in 1..Len(allRuns) :
              /\ IsOrderStatistic(FinalTotals, (SIMULATIONS * 5) \div 10, FinalTotals[k])
              /\ results'.medianData = PathData(allRuns[k], cb.params)]_vars

\* The representative path is below the median band at an earlier age: the written
\* trajectory is a path and not a row of per-age medians.
C11_Witness ==
    /\ results # Null
    /\ \E j \in 1..Len(results.medianData) :
          /\ Lt(results.medianData[j].total, results.probabilityData[j].p50)
          /\ Gt(results.medianData[j].taxable, Zero)

\* Trajectory a is the beginning of trajectory b.
IsPrefix(a, b) ==
    /\ Len(a.total) <= Len(b.total)
    /\ \A i \in 1..Len(a.total) :
          /\ a.taxable[i] = b.taxable[i] /\ a.pretax[i] = b.pretax[i]
          /\ a.roth[i] = b.roth[i] /\ a.total[i] = b.total[i]

\* C12: with volatility = 0 and a fixed expectedReturn all N trajectories of a batch
\* are identical, so p20 = p50 = p80 at every age and successRate is 0 or 100.
C12_ZeroVolatility ==
    /\ (pc # "idle" /\ cb.params.volatility = 0) =>
          \A k \in 1..Len(allRuns) :
              /\ allRuns[k] = allRuns[1]
              /\ IsPrefix(run, allRuns[k])
    /\ (results # Null /\ params.volatility = 0) =>
          /\ \A j \in 1..Len(results.probabilityData) :
                LET d == results.probabilityData[j]
                IN  d.p20 = d.p50 /\ d.p50 = d.p80
          /\ results.successRate \in {Zero, Rat(100)}

\* A batch without volatility and with a return of +50% a year ended with one grown
\* band and every path a success.
C12_Witness ==
    /\ results # Null /\ params.volatility = 0 /\ params.expectedReturn > 0
    /\ results.successRate = Rat(100)
    /\ LET d == results.probabilityData[Len(results.probabilityData)]
       IN  d.p20 = d.p80 /\ Gt(d.p50, StartTotalNetWorth(params))

\* A path is about to start.
PathStarts == pc = "year" /\ year = 0

\* The batch about to deliver ran on the same parameters and the same variates as
\* the batch whose result is displayed.
Replayed ==
    /\ Delivers
    /\ tape # NoTape
    /\ results # Null
    /\ resultsParams = cb.params

\* C13: with the random source replaced by a fixed sequence of draws, two invocations
\* of the batch on identical parameters produce identical results, and nothing
\* survives from one path to the next: every path starts from the balances of the
\* parameters with an empty trajectory.
C13_Deterministic ==
    /\ [](PathStarts => (bal = StartBalances(cb.params) /\ run = EmptyRun))
    /\ [][Replayed => results' = results]_vars

\* A second invocation on parameters of the same value has delivered a result whose
\* bands differ: the paths of the batch did not all see the same variates.
C13_Witness ==
    /\ tape # NoTape
    /\ resultsGen = 1 /\ pc = "idle"
    /\ resultsParams \in ReplayParams /\ params = resultsParams
    /\ LET d == results.probabilityData[Len(results.probabilityData)]
       IN  Lt(d.p20, d.p80)

\* A retired period has just run.
RetiredStep == Stepped /\ last.phase \in {"surplus", "withdrawal"}

\* C14: during decumulation the cashflow increases the taxable balance only when fixed
\* income exceeds the target spend (portfolioNeed < 0); in every retired period with
\* portfolioNeed > 0 the withdrawal is >= 0 and the cashflow increases no balance.
C14_DepositOnlyOnSurplus ==
    RetiredStep =>
        /\ Gt(last.cash.taxable, last.grown.taxable) => Lt(last.portfolioNeed, Zero)
        /\ Gt(last.portfolioNeed, Zero) =>
              /\ Ge(last.actualPortfolioWithdrawal, Zero)
              /\ Le(last.cash.taxable, last.grown.taxable)
              /\ Le(last.cash.pretax, last.grown.pretax)
              /\ Le(last.cash.roth, last.grown.roth)

\* A tax factor as the specification states it: 0.01 in place of a factor <= 0.
StatedFactor(f) == IF Le(f, Zero) THEN Norm(1, 100) ELSE f

\* What an account holding balance is left with, and what is left of the net need,
\* when a net need is drawn from it at factor f.
StatedDraw(need, balance, f) ==
    IF Ge(balance, Div(need, f))
    THEN [left |-> Sub(balance, Div(need, f)), need |-> Zero]
    ELSE [left |-> Zero, need |-> Sub(need, Mul(balance, f))]

\* C15: a withdrawal of net need W >= 0 against positive balances T, P, R draws from
\* taxable at fT = 1 - inclusion * taxRate, then pre-tax at fP = 1 - taxRate, then roth
\* at 1: an account that covers need / f is reduced by exactly that and the need
\* becomes 0, otherwise it is zeroed and contributes balance * f.  The need left unmet
\* is max(0, W - (T * fT + P * fP + R)), and no balance goes below 0.
C15_WithdrawalArithmetic ==
    (Stepped /\ last.phase = "withdrawal"
             /\ Gt(last.grown.taxable, Zero) /\ Gt(last.grown.pretax, Zero)
             /\ Gt(last.grown.roth, Zero)) =>
        LET p == cb.params
            W == last.actualPortfolioWithdrawal
            T == last.grown.taxable
            P == last.grown.pretax
            R == last.grown.roth
            fT == StatedFactor(Norm(10000 - p.capitalGainsInclusion * p.incomeTaxRate, 10000))
            fP == StatedFactor(Norm(100 - p.incomeTaxRate, 100))
            a == StatedDraw(W, T, fT)
            b == StatedDraw(a.need, P, fP)
            c == StatedDraw(b.need, R, Rat(1))
            covered == Add(Add(Mul(T, fT), Mul(P, fP)), R)
        IN  /\ Ge(W, Zero)
            /\ last.cash = [taxable |-> a.left, pretax |-> b.left, roth |-> c.left]
            /\ last.remainingNetNeed = c.need
            /\ last.remainingNetNeed = IF Gt(W, covered) THEN Sub(W, covered) ELSE Zero
            /\ Ge(last.cash.taxable, Zero) /\ Ge(last.cash.pretax, Zero)
            /\ Ge(last.cash.roth, Zero)

\* W = 10, T = 5, fT = 0.85: taxable is zeroed contributing 4.25, and the 5.75 left
\* are drawn from pre-tax at fP = 0.7.
C15_Witness ==
    /\ Stepped /\ last.phase = "withdrawal"
    /\ last.actualPortfolioWithdrawal = Rat(10) /\ last.grown.taxable = Rat(5)
    /\ last.cash.taxable = Zero
    /\ Sub(last.grown.pretax, last.cash.pretax) = Div(Norm(575, 100), Norm(7, 10))
    /\ last.cash.roth = last.grown.roth

\* Tax and inclusion rates across [0, 100].
Rates == {0, 30, 50, 60, 100}

\* The tax factors before the replacement of a factor <= 0.
TaxableFactor(p) == Norm(10000 - p.capitalGainsInclusion * p.incomeTaxRate, 10000)

PreTaxFactor(p) == Norm(100 - p.incomeTaxRate, 100)

\* C16: the divisor of the gross-up is strictly positive in the taxable and in the
\* pre-tax step for every incomeTaxRate and capitalGainsInclusion in [0, 100]; a tax
\* factor <= 0 is replaced by 0.01, so that a gross-up never divides by zero and a
\* withdrawal never raises a balance.
C16_PositiveDivisor ==
    /\ pc # "idle" =>
          \A t \in Rates \cup {cb.params.incomeTaxRate} :
              \A c \in Rates \cup {cb.params.capitalGainsInclusion} :
                  LET p == [cb.params EXCEPT !.incomeTaxRate = t,
                                             !.capitalGainsInclusion = c]
                  IN  /\ Gt(TaxableDivisor(p), Zero) /\ Gt(PreTaxDivisor(p), Zero)
                      /\ TaxableDivisor(p) =
                            IF Le(TaxableFactor(p), Zero) THEN Norm(1, 100)
                            ELSE TaxableFactor(p)
                      /\ PreTaxDivisor(p) =
                            IF Le(PreTaxFactor(p), Zero) THEN Norm(1, 100)
                            ELSE PreTaxFactor(p)
    /\ (Stepped /\ last.phase = "withdrawal") =>
          /\ Le(last.cash.taxable, last.grown.taxable)
          /\ Le(last.cash.pretax, last.grown.pretax)
          /\ IsNumber(last.cash.taxable) /\ IsNumber(last.cash.pretax)
          /\ IsNumber(last.remainingNetNeed)

\* Both tax factors are 0 (rates of 100%): taxable and pre-tax were emptied and each
\* yielded a hundredth of its balance.
C16_Witness ==
    /\ Stepped /\ last.phase = "withdrawal"
    /\ cb.params.incomeTaxRate = 100 /\ cb.params.capitalGainsInclusion = 100
    /\ Gt(last.grown.taxable, Zero) /\ Gt(last.grown.pretax, Zero)
    /\ last.cash.taxable = Zero /\ last.cash.pretax = Zero
    /\ last.remainingNetNeed =
          Sub(last.actualPortfolioWithdrawal,
              Add(Mul(Add(last.grown.taxable, last.grown.pretax), Norm(1, 100)),
                  last.grown.roth))

\* The cashflow of the last iteration added the three contributions to what growth left.
Contributed ==
    /\ last.cash.taxable = Add(last.grown.taxable, Rat(cb.params.taxableContribution))
    /\ last.cash.pretax = Add(last.grown.pretax, Rat(cb.params.preTaxContribution))
    /\ last.cash.roth = Add(last.grown.roth, Rat(cb.params.rothContribution))

\* The cashflow of the last iteration was the spending policy: a withdrawal or a
\* deposit of the computed amount, and nothing added to pre-tax or roth.
PolicyRan ==
    /\ last.phase \in {"surplus", "withdrawal"}
    /\ IsNumber(last.portfolioNeed) /\ IsNumber(last.actualPortfolioWithdrawal)
    /\ Le(last.cash.pretax, last.grown.pretax)
    /\ Le(last.cash.roth, last.grown.roth)

\* C17: at every step > 0 of a path exactly one cashflow phase runs after growth: the
\* contributions to all three accounts iff age < retirementAge, the spending policy
\* iff age >= retirementAge (the year of the retirement age included); once a path is
\* in decumulation no later year of it contributes.
C17_OnePhase ==
    /\ [](Stepped /\ last.age > cb.params.currentAge =>
            IF last.age < cb.params.retirementAge
            THEN last.phase = "accumulation" /\ Contributed
            ELSE PolicyRan /\ (~Contributed \/ last.cash = last.grown))
    /\ [][(RetiredStep /\ pc' = "year" /\ sim' = sim /\ year' > year) =>
             last'.phase # "accumulation"]_vars

\* After a working year with contributions the year of the retirement age ran the
\* spending policy.
C17_Witness ==
    /\ Stepped
    /\ cb.params.retirementAge > cb.params.currentAge + 1
    /\ last.age = cb.params.retirementAge
    /\ last.phase = "withdrawal"
    /\ Lt(last.cash.taxable, last.grown.taxable)
    /\ Gt(run.pretax[2], run.pretax[1]) /\ Gt(run.roth[2], run.roth[1])

\* The first entry of trajectory r holds the starting balances of parameters p.
StartsAt(r, p) ==
    /\ r.taxable[1] = Rat(p.taxableBalance)
    /\ r.pretax[1] = Rat(p.preTaxBalance)
    /\ r.roth[1] = Rat(p.rothBalance)
    /\ r.total[1] = Rat(p.taxableBalance + p.preTaxBalance + p.rothBalance)

\* C18: step 0 of every path is a pure snapshot: the first trajectory entry, at age
\* currentAge, holds the starting balances of the parameters with no growth and no
\* cashflow applied, also when currentAge >= retirementAge or the contributions are
\* not 0; so p20 = p50 = p80 = the initial net worth at index 0.
C18_SnapshotStep ==
    /\ pc # "idle" =>
          \A r \in Recorded : Len(r.total) >= 1 => StartsAt(r, cb.params)
    /\ (Stepped /\ last.age = cb.params.currentAge) =>
          /\ last.phase = "snapshot"
          /\ last.cash = last.grown /\ last.grown = StartBalances(cb.params)
    /\ results # Null =>
          LET d == results.probabilityData[1]
              m == results.medianData[1]
              start == Rat(resultsParams.taxableBalance + resultsParams.preTaxBalance
                           + resultsParams.rothBalance)
          IN  /\ d.age = resultsParams.currentAge
              /\ d.p20 = start /\ d.p50 = start /\ d.p80 = start
              /\ m.total = start /\ m.taxable = Rat(resultsParams.taxableBalance)

\* A batch on parameters with currentAge = retirementAge and contributions above 0
\* has delivered: the bands start at the initial net worth and move afterwards.
C18_Witness ==
    /\ results # Null
    /\ resultsParams.currentAge >= resultsParams.retirementAge
    /\ resultsParams.taxableContribution > 0
    /\ results.probabilityData[1].p50 = StartTotalNetWorth(resultsParams)
    /\ results.probabilityData[2].p50 # results.probabilityData[1].p50

\* C19: the total in the last entry of medianData, the representative path, always
\* equals medianEndWealth, the p50 of probabilityData at the final age, although the
\* path's totals at earlier ages may differ from the p50 of those ages.
C19_MediansCoincide ==
    results # Null =>
        LET n == Len(results.probabilityData)
        IN  /\ Len(results.medianData) = n
            /\ results.medianData[n].age = results.probabilityData[n].age
            /\ results.medianEndWealth = results.probabilityData[n].p50
            /\ results.medianData[n].total = results.medianEndWealth

\* The representative path differs from the median band at an earlier age and ends
\* on it, above 0.
C19_Witness ==
    /\ results # Null
    /\ Gt(results.medianEndWealth, Zero)
    /\ results.medianData[Len(results.medianData)].total = results.medianEndWealth
    /\ \E j \in 1..(Len(results.medianData) - 1) :
          results.medianData[j].total # results.probabilityData[j].p50

\* A valid parameter set: the ages in order, the amounts not negative, the rates and
\* percentages in their ranges.
ValidParams(p) ==
    /\ p.currentAge < p.retirementAge /\ p.retirementAge < p.lifeExpectancy
    /\ \A k \in {"taxableBalance", "taxableContribution", "preTaxBalance",
                  "preTaxContribution", "rothBalance", "rothContribution",
                  "minSpending", "discretionarySpending", "fixedIncomeAnnual",
                  "volatility"} : p[k] >= 0
    /\ \A k \in {"spendingCutFlexibility", "incomeTaxRate", "capitalGainsInclusion"} :
          p[k] >= 0 /\ p[k] <= 100

\* The trajectory of a path on parameters p from year y on, r recorded so far, when
\* every variate is z.
RECURSIVE PathFrom(_, _, _, _, _)
PathFrom(p, y, b, r, z) ==
    IF y > YearsToSimulate(p) THEN r
    ELSE LET next == Iteration(p, y, b, z).bal
         IN  PathFrom(p, y + 1, next, Push(r, next), z)

\* What a batch on parameters p without volatility hands to setResults: the variates
\* do not matter, and all paths are the same.
Output(p) ==
    LET path == PathFrom(p, 0, StartBalances(p), EmptyRun, CHOOSE z \in ZDraws : TRUE)
    IN  AggregateResult([k \in 1..SIMULATIONS |-> path], p)

\* Every scheduled batch has run.
Quiescent == pc = "idle" /\ timers = <<>>

\* C20: after parameter changes to valid parameter sets, once every scheduled batch
\* has run, results is the output of the batch scheduled for the current params;
\* batches deliver in the order they were scheduled, so a write of results is never
\* by an older batch than the write before it.
C20_LatestResult ==
    /\ []((Quiescent /\ ValidParams(params)) =>
            /\ results # Null
            /\ resultsGen = changes
            /\ resultsParams = params
            /\ params.volatility = 0 => results = Output(params))
    /\ [][resultsGen' >= resultsGen]_vars

\* A changed and valid parameter set is current, both batches have run, and the
\* result displayed is the one of the second.
C20_Witness ==
    /\ Quiescent /\ ValidParams(params)
    /\ changes = 1 /\ resultsGen = 1
    /\ params \notin InitialParams
    /\ resultsParams = params

\* A scheduled batch has not delivered its result yet: its timer is pending or its
\* callback is running.
BatchPending == Len(timers) > 0 \/ pc # "idle"

\* C21: isSimulating is true whenever at least one scheduled batch has not yet
\* delivered its result, in every interleaving of changes to valid parameter sets
\* and timer firings: it becomes false only when no batch is pending.
C21_BusyWhilePending ==
    (ValidParams(params) /\ BatchPending) => isSimulating = TRUE

====
